---- MODULE Spec2Model ----
(***************************************************************************)
(* A model of binanza (src/binanza.py): the order normalizer check_order,  *)
(* the balance guard balance_is_ok, the price guards buy_price_is_right    *)
(* and sell_price_is_right, and the trading loop Binanza.trade.            *)
(*                                                                         *)
(* Numbers.  Every price, quantity and balance of the program is a         *)
(* decimal.Decimal.  The model counts them in fixed quanta:                *)
(*   - an amount (a quantity, a balance, a notional value, minQty,         *)
(*     stepSize, minNotional) is an integer number of thousandths, so the  *)
(*     literal 0.001 of check_order is the amount 1;                       *)
(*   - a price (minPrice, tickSize, a close price) is an integer number of *)
(*     1/PriceScale units, so the price 1.0 is the integer PriceScale.     *)
(* The product of an amount q and a price p is therefore the amount        *)
(* q * p / PriceScale, and q * p is kept where only a comparison is made.  *)
(* The context precision (getcontext().prec, significant digits) is the    *)
(* variable prec; every Decimal operation rounds its result to it.         *)
(***************************************************************************)
EXTENDS Integers, Sequences, FiniteSets, TLC

VARIABLES
    pc,             \* control position of the operation in progress
    prec,           \* decimal.getcontext().prec
    exchange_info,  \* self.exchange_info["symbols"]
    balances,       \* self.balances: asset -> free amount
    min_balance,    \* self.min_balance: asset -> amount (a dict: partial)
    max_balance,    \* self.max_balance: asset -> amount (a dict: partial)
    all_orders,     \* what client.get_all_orders returns for the symbol
    args,           \* the arguments of the call being made
    ret,            \* what the call returned
    symbol_pairs,   \* self.symbol_pairs
    continuous,     \* self.continuous
    pair,           \* trade: the index of symbol_pair in self.symbol_pairs
    loc,            \* trade: its locals indication, price, quantity,
                    \*   base_quantity and quote_quantity
    outcome,        \* trade: the branch the pair's decision ended in
    sent,           \* trade: the orders sent to the exchange for the pair
    raised,         \* trade: the exception the cycle's except: caught
    open_orders,    \* the exchange: the open orders of the symbol in turn
    db,             \* binanza.db: the order ids of the orders table and
                    \*   the rows added to the patterns table, for the
                    \*   symbol pair in turn
    gmail,          \* self.gmail, with the recipients: None, or a record
    last_run,       \* the last run log file, by what has_order and
                    \*   has_errors read in it
    mails,          \* the mails sent: in this cycle, and in the cycle before
    exchange        \* the exchange: the free balances of the account and
                    \*   the trading rules in force

\* the state of Binanza.trade
tradeVars == <<symbol_pairs, continuous, pair, loc, outcome, sent, raised>>

\* the exchange's open orders, the database, the mail settings and the log
runVars == <<open_orders, db, gmail, last_run, mails, exchange>>

vars == <<pc, prec, exchange_info, balances, min_balance, max_balance,
          all_orders, args, ret, tradeVars, runVars>>

----------------------------------------------------------------------------
(* Bounds of the model *)

\* prices are counted in 1/PriceScale of a quote unit
PriceScale == 2
\* minPrice, tickSize, minQty and stepSize range over 1..MaxGrid
MaxGrid == 2
\* a desired price or quantity ranges up to MaxWant
MaxWant == 4
\* minNotional ranges over 1..MaxNotional
MaxNotional == 3
\* a free balance, and a configured minimum or maximum, range over
\* 0..MaxBalance
MaxBalance == 3
\* the exchange returns a history of at most MaxOrders orders
MaxOrders == 5
\* the last close price of a candle window ranges over 1..MaxClose
MaxClose == 2
\* the configured minimum balance, where one is configured
MaxMin == 1
\* a candle window holds at most MaxCandles candles
MaxCandles == 12
\* the volume of a whole candle; the last candle's may be 0, 1 or this
MaxVolume == 5
\* times are counted in ticks, TimeScale ticks to the second
TimeScale == 2
\* self.order_lifetime, in seconds
OrderLifetime == 1
\* the clock reads at most MaxTime ticks
MaxTime == 7
\* a symbol has at most MaxOpen open orders
MaxOpen == 2

----------------------------------------------------------------------------
(* Python values *)

\* Python's None, and a value that is not None
None == <<>>
Some(v) == <<v>>
Val(o) == o[1]

\* a dict as a function on its keys
Has(d, k) == k \in DOMAIN d
EmptyDict == [k \in {} |-> 0]

----------------------------------------------------------------------------
(* decimal.Decimal under a context precision *)

Abs(n) == IF n < 0 THEN 0 - n ELSE n

RECURSIVE Digits(_)
Digits(n) == IF n < 10 THEN 1 ELSE 1 + Digits(n \div 10)

RECURSIVE Pow10(_)
Pow10(k) == IF k <= 0 THEN 1 ELSE 10 * Pow10(k - 1)

\* n >= 0 rounded to a multiple of q, ties to the even multiple
\* (ROUND_HALF_EVEN, the rounding of the default context)
RoundHalfEven(n, q) ==
    LET k == n \div q
        r == n - k * q
    IN  IF 2 * r < q THEN k * q
        ELSE IF 2 * r > q THEN (k + 1) * q
        ELSE IF k % 2 = 0 THEN k * q ELSE (k + 1) * q

\* a result rounded to p significant digits
Quantize(n, p) ==
    IF Digits(Abs(n)) <= p THEN n
    ELSE LET q == Pow10(Digits(Abs(n)) - p)
         IN  IF n < 0 THEN 0 - RoundHalfEven(0 - n, q) ELSE RoundHalfEven(n, q)

\* the precision of a fresh decimal context
DefaultPrec == 28

\* a + b, a - b, a * b of two Decimals under precision p
DecAdd(a, b, p) == Quantize(a + b, p)
DecSub(a, b, p) == Quantize(a - b, p)
DecMul(a, b, p) == Quantize(a * b, p)

----------------------------------------------------------------------------
(* Binanza.check_order *)

\* symbol.endswith("BTC") or symbol.endswith("ETH"): a symbol is the
\* base asset followed by the quote asset
EndsWithBtcOrEth(symbol) == symbol.quote \in {"BTC", "ETH"}

\* while (a < want): a += step
RECURSIVE RatchetUp(_, _, _, _)
RatchetUp(a, step, want, p) ==
    IF a < want THEN RatchetUp(DecAdd(a, step, p), step, want, p) ELSE a

\* the PRICE_FILTER branch that starts the count at tickSize instead of
\* minPrice
price_filter_from_tick(st, s, f, price) ==
    [st EXCEPT !.prec = s.quotePrecision,
               !.a_price = Some(RatchetUp(f.tickSize, f.tickSize, price,
                                          s.quotePrecision))]

\* if (f["filterType"] == "PRICE_FILTER"): ...
price_filter(st, s, f, price) ==
    [st EXCEPT !.prec = s.quotePrecision,
               !.a_price = Some(RatchetUp(f.minPrice, f.tickSize, price,
                                          s.quotePrecision))]

\* the LOT_SIZE branch that starts the count at stepSize instead of minQty
lot_size_from_step(st, s, f, quantity) ==
    LET a0 == IF st.a_quantity = None THEN f.stepSize ELSE Val(st.a_quantity)
    IN  [st EXCEPT !.prec = s.baseAssetPrecision,
                   !.qty_step = Some(f.stepSize),
                   !.a_quantity = Some(RatchetUp(a0, f.stepSize, quantity,
                                                 s.baseAssetPrecision))]

\* if (f["filterType"] == "LOT_SIZE"): ...
lot_size(st, s, f, quantity) ==
    LET a0 == IF st.a_quantity = None THEN f.minQty ELSE Val(st.a_quantity)
    IN  [st EXCEPT !.prec = s.baseAssetPrecision,
                   !.qty_step = Some(f.stepSize),
                   !.a_quantity = Some(RatchetUp(a0, f.stepSize, quantity,
                                                 s.baseAssetPrecision))]

\* if (f["filterType"] == "MIN_NOTIONAL"): ...
\* notional_fix records that the branch assigned the quantity
min_notional(st, s, f) ==
    IF st.a_quantity = None \/ Val(st.a_quantity) < f.minNotional
    THEN [st EXCEPT !.prec = s.baseAssetPrecision,
                    !.a_quantity = Some(f.minNotional),
                    !.notional_fix = TRUE]
    ELSE [st EXCEPT !.prec = s.baseAssetPrecision]

\* one pass of "for f in s["filters"]"
apply_filter(st, s, f, quantity, price) ==
    CASE f.filterType = "PRICE_FILTER" -> price_filter(st, s, f, price)
      [] f.filterType = "LOT_SIZE" -> lot_size(st, s, f, quantity)
      [] f.filterType = "MIN_NOTIONAL" -> min_notional(st, s, f)
      [] OTHER -> st

RECURSIVE filter_loop(_, _, _, _, _)
filter_loop(st, s, i, quantity, price) ==
    IF i > Len(s.filters) THEN st
    ELSE filter_loop(apply_filter(st, s, s.filters[i], quantity, price),
                     s, i + 1, quantity, price)

\* while (a_quantity * a_price < 0.001): a_quantity += qty_step
\* The product is an amount times PriceScale; 0.001 is the float
\* 0.001000000000000000020816..., which the Decimal 0.001 is below: the
\* test is true up to and including the amount 1.  floor_fix records that
\* the loop raised the quantity.
RECURSIVE btc_eth_loop(_)
btc_eth_loop(st) ==
    IF st.a_quantity = None \/ st.a_price = None
    THEN [st EXCEPT !.raised = "TypeError"]
    ELSE IF DecMul(Val(st.a_quantity), Val(st.a_price), st.prec) <= PriceScale
    THEN IF st.qty_step = None
         THEN [st EXCEPT !.raised = "UnboundLocalError"]
         ELSE btc_eth_loop([st EXCEPT
                  !.a_quantity = Some(DecAdd(Val(st.a_quantity),
                                             Val(st.qty_step), st.prec)),
                  !.floor_fix = TRUE])
    ELSE st

\* the body of "for s in self.exchange_info["symbols"]" for the symbol s
check_symbol(st, s, symbol, quantity, price) ==
    LET st1 == filter_loop(st, s, 1, quantity, price)
    IN  IF EndsWithBtcOrEth(symbol) THEN btc_eth_loop(st1) ELSE st1

\* a status test that lets every symbol through
is_trading_whatever(s) == TRUE

\* the negation of: if (s["status"] != "TRADING")
is_trading(s) == s.status = "TRADING"

\* for s in self.exchange_info["symbols"]: ...
\* done: a return or an exception has ended the call
RECURSIVE symbol_loop(_, _, _, _, _, _)
symbol_loop(st, info, i, symbol, quantity, price) ==
    IF i > Len(info) \/ st.done THEN st
    ELSE LET s == info[i]
         IN  IF s.symbol # symbol
             THEN symbol_loop(st, info, i + 1, symbol, quantity, price)
             ELSE IF ~is_trading(s)
             THEN [st EXCEPT !.a_quantity = None, !.a_price = None,
                             !.done = TRUE]
             ELSE LET st1 == check_symbol(st, s, symbol, quantity, price)
                  IN  IF st1.raised # "none"
                      THEN [st1 EXCEPT !.done = TRUE]
                      ELSE symbol_loop(st1, info, i + 1, symbol, quantity,
                                       price)

\* what the call leaves when the loop has ended in the state st
check_result(st) ==
    [quantity |-> st.a_quantity, price |-> st.a_price,
     raised |-> st.raised, prec |-> st.prec,
     notional_fix |-> st.notional_fix, floor_fix |-> st.floor_fix]

\* check_order(symbol, quantity, price) called under context precision p:
\* the pair returned (quantity, price), the exception raised instead, the
\* context precision it leaves, and which notional corrections acted
check_order(info, symbol, quantity, price, p) ==
    check_result(symbol_loop([a_quantity |-> None, a_price |-> None,
                              qty_step |-> None, prec |-> p,
                              notional_fix |-> FALSE, floor_fix |-> FALSE,
                              raised |-> "none", done |-> FALSE],
                             info, 1, symbol, quantity, price))

----------------------------------------------------------------------------
(* Binanza.balance_is_ok *)

\* the guard without its first test, quantity > self.balances[symbol]
balance_is_ok_min_only(bal, minb, symbol, quantity) ==
    ~(Has(minb, symbol) /\ bal[symbol] < minb[symbol])

\* balance_is_ok(symbol, quantity) under the balances bal and the
\* configured minimum balances minb
balance_is_ok(bal, minb, symbol, quantity) ==
    ~(\/ quantity > bal[symbol]
      \/ (Has(minb, symbol) /\ bal[symbol] < minb[symbol]))

----------------------------------------------------------------------------
(* Binanza.get_order_average, buy_price_is_right, sell_price_is_right *)

\* an order of the history: age is now - then in days (seconds_to_days of
\* the difference), price in price quanta, executedQty in amounts

\* the test of line 421
Qualifies(order, side, days) ==
    /\ days = None \/ order.age < Val(days)
    /\ order.side = side
    /\ order.status \in {"PARTIALLY_FILLED", "FILLED"}

\* the loop of lines 417-424: order_sum, quantity and n_orders
RECURSIVE order_totals(_, _, _, _, _)
order_totals(orders, i, side, days, p) ==
    IF i = 0 THEN [order_sum |-> 0, quantity |-> 0, n_orders |-> 0]
    ELSE LET t == order_totals(orders, i - 1, side, days, p)
             o == orders[i]
         IN  IF Qualifies(o, side, days)
             THEN [order_sum |-> DecAdd(t.order_sum,
                                        DecMul(o.price, o.executedQty, p), p),
                   quantity |-> DecAdd(t.quantity, o.executedQty, p),
                   n_orders |-> t.n_orders + 1]
             ELSE t

\* get_order_average(symbol, side, days) over the orders the exchange
\* returns.  avg is the quotient order_sum / quantity, kept as the pair
\* (order_sum, quantity): the quotient of two numbers of the model differs
\* from every price of the model by far more than the rounding to the
\* context precision.  is_float: avg is the float 0.0 of line 427.
get_order_average(orders, side, days, p) ==
    LET t == order_totals(orders, Len(orders), side, days, p)
    IN  [avg |-> [num |-> t.order_sum, den |-> t.quantity,
                  is_float |-> ~(t.quantity > 0)],
         count |-> t.n_orders]

\* the default of min_orders
MinOrders == 5
\* the default lookback of sell_price_is_right, in days
DefaultCheckDays == 7
\* Decimal(1.0005), as the fraction ToleranceNum / ToleranceDen
ToleranceNum == 10005
ToleranceDen == 10000

\* price > avg * Decimal(1.0005), price < avg * Decimal(1.0005)
AboveTolerance(price, avg) ==
    price * avg.den * ToleranceDen > avg.num * ToleranceNum
BelowTolerance(price, avg) ==
    price * avg.den * ToleranceDen < avg.num * ToleranceNum

\* the guard that compares against the average whatever the number of
\* orders behind it
buy_price_is_right_any_count(orders, symbol_pair, price, p) ==
    IF Has(symbol_pair, "buy_order_check") /\ ~symbol_pair.buy_order_check
    THEN [value |-> TRUE, raised |-> "none"]
    ELSE LET days == IF Has(symbol_pair, "check_days")
                     THEN Some(symbol_pair.check_days) ELSE None
             order_history == get_order_average(orders, "SELL", days, p)
         IN  IF order_history.count = 0
             THEN [value |-> TRUE, raised |-> "none"]
             ELSE IF order_history.avg.is_float
             THEN [value |-> FALSE, raised |-> "TypeError"]
             ELSE [value |-> ~AboveTolerance(price, order_history.avg),
                   raised |-> "none"]

\* buy_price_is_right(symbol_pair, price): the value returned, or the
\* exception raised (float * Decimal, when avg is the float 0.0)
buy_price_is_right(orders, symbol_pair, price, p) ==
    IF Has(symbol_pair, "buy_order_check") /\ ~symbol_pair.buy_order_check
    THEN [value |-> TRUE, raised |-> "none"]
    ELSE LET days == IF Has(symbol_pair, "check_days")
                     THEN Some(symbol_pair.check_days) ELSE None
             order_history == get_order_average(orders, "SELL", days, p)
         IN  IF order_history.count = 0
             THEN [value |-> TRUE, raised |-> "none"]
             ELSE IF order_history.count >= MinOrders
             THEN IF order_history.avg.is_float
                  THEN [value |-> FALSE, raised |-> "TypeError"]
                  ELSE [value |-> ~AboveTolerance(price, order_history.avg),
                        raised |-> "none"]
             ELSE [value |-> TRUE, raised |-> "none"]

\* sell_price_is_right(symbol_pair, price)
sell_price_is_right(orders, symbol_pair, price, p) ==
    IF Has(symbol_pair, "sell_order_check") /\ ~symbol_pair.sell_order_check
    THEN [value |-> TRUE, raised |-> "none"]
    ELSE LET days == IF Has(symbol_pair, "check_days")
                     THEN Some(symbol_pair.check_days)
                     ELSE Some(DefaultCheckDays)
             order_history == get_order_average(orders, "BUY", days, p)
         IN  IF order_history.count = 0
             THEN [value |-> TRUE, raised |-> "none"]
             ELSE IF order_history.count >= MinOrders
             THEN IF order_history.avg.is_float
                  THEN [value |-> FALSE, raised |-> "TypeError"]
                  ELSE [value |-> ~BelowTolerance(price, order_history.avg),
                        raised |-> "none"]
             ELSE [value |-> TRUE, raised |-> "none"]

----------------------------------------------------------------------------
(* The exchange's rule sets *)

\* baseAssetPrecision and quotePrecision as the exchange declares them
AssetPrecision == 8

FilterTypes == {"PRICE_FILTER", "LOT_SIZE", "MIN_NOTIONAL"}

\* the orders in which a rule set can list some or all of the filters
FilterOrders ==
    {o \in UNION {[1..n -> FilterTypes] : n \in 0..3} :
        \A i, j \in DOMAIN o : i # j => o[i] # o[j]}

MakeFilter(t, minPrice, tickSize, minQty, stepSize, minNotional) ==
    CASE t = "PRICE_FILTER" ->
           [filterType |-> t, minPrice |-> minPrice, tickSize |-> tickSize]
      [] t = "LOT_SIZE" ->
           [filterType |-> t, minQty |-> minQty, stepSize |-> stepSize]
      [] t = "MIN_NOTIONAL" ->
           [filterType |-> t, minNotional |-> minNotional]

\* one entry of exchange_info["symbols"]
SymbolInfo(symbol, status, o, minPrice, tickSize, minQty, stepSize, minNotional) ==
    [symbol |-> symbol, status |-> status,
     baseAsset |-> symbol.base, quoteAsset |-> symbol.quote,
     baseAssetPrecision |-> AssetPrecision,
     quotePrecision |-> AssetPrecision,
     filters |-> [i \in DOMAIN o |->
                     MakeFilter(o[i], minPrice, tickSize, minQty, stepSize,
                                minNotional)]]

\* the symbols the configured pairs trade: one quoted in ETH, one not
IOTAETH == [base |-> "IOTA", quote |-> "ETH"]
ETHUSDT == [base |-> "ETH", quote |-> "USDT"]
Symbols == {IOTAETH, ETHUSDT}

\* a symbol of the exchange that no configured pair trades
OtherInfo ==
    SymbolInfo([base |-> "BNB", quote |-> "BTC"], "TRADING",
               <<"PRICE_FILTER", "LOT_SIZE", "MIN_NOTIONAL">>, 1, 1, 1, 1, 1)

\* the entry of symbol, and its filter of type t
InfoOf(info, symbol) ==
    CHOOSE i \in DOMAIN info : info[i].symbol = symbol
HasFilter(s, t) == \E i \in DOMAIN s.filters : s.filters[i].filterType = t
FilterOf(s, t) ==
    s.filters[CHOOSE i \in DOMAIN s.filters : s.filters[i].filterType = t]

\* the locals of trade before the first pair has assigned them
NoLocals ==
    [indication |-> 0, price |-> None, quantity |-> None,
     base_quantity |-> None, quote_quantity |-> None,
     cancelled_orders |-> <<>>, patterns |-> <<>>]

\* no trading loop is running: a function is called on its own
NoTrade ==
    /\ symbol_pairs = <<>>
    /\ continuous = FALSE
    /\ pair = 0
    /\ loc = NoLocals
    /\ outcome = "none"
    /\ sent = <<>>
    /\ raised = "none"

\* the orders table by its order_id column and the patterns table by its
\* rows, of which trade reads none back: the rows the pair in turn deletes
\* and adds are kept, older ones are not
EmptyDb == [orders |-> {}, patterns |-> <<>>]
\* the last-run log by what has_order and has_errors look for in it, with
\* whether logging.shutdown has closed its handler and whether this
\* interpreter's FileHandler opens the file anew (mode 'w') when a record
\* is emitted after that
NewLog ==
    [orders |-> FALSE, errors |-> FALSE, interrupt |-> FALSE,
     closed |-> FALSE, reopens |-> FALSE]
\* the mails sent in this cycle, and the error mails of the cycle before
NoMails == [orders |-> 0, errors |-> 0, errors_before |-> 0]
\* the exchange is not asked for balances or rules from its own state
NoExchange == [account |-> EmptyDict, rules |-> None]

\* nothing of a run: no open order, no mail settings
NoRun ==
    /\ open_orders = <<>>
    /\ db = EmptyDb
    /\ gmail = None
    /\ exchange = NoExchange
    /\ last_run = NewLog
    /\ mails = NoMails

----------------------------------------------------------------------------
(* check_order on its own: every rule set, desired quantity and price *)

InitNormalizer ==
    /\ pc = "call"
    /\ prec = DefaultPrec
    /\ \E symbol \in Symbols, status \in {"TRADING", "BREAK"},
          o \in FilterOrders,
          minPrice \in 1..MaxGrid, tickSize \in 1..MaxGrid,
          minQty \in 1..MaxGrid, stepSize \in 1..MaxGrid,
          minNotional \in 1..MaxNotional,
          quantity \in 0..MaxWant, price \in 1..MaxWant :
        /\ exchange_info =
              <<OtherInfo,
                SymbolInfo(symbol, status, o, minPrice, tickSize, minQty,
                           stepSize, minNotional)>>
        /\ args = [symbol |-> symbol, quantity |-> quantity,
                   price |-> price]
    /\ balances = EmptyDict
    /\ min_balance = EmptyDict
    /\ max_balance = EmptyDict
    /\ all_orders = <<>>
    /\ ret = None
    /\ NoTrade
    /\ NoRun

CallCheckOrder ==
    /\ pc = "call"
    /\ LET r == check_order(exchange_info, args.symbol, args.quantity,
                            args.price, prec)
       IN  /\ ret = None
           /\ ret' = r
           /\ prec' = r.prec
    /\ pc' = "return"
    /\ UNCHANGED <<exchange_info, balances, min_balance, max_balance,
                   all_orders, args, tradeVars,
                   runVars>>

NextNormalizer == CallCheckOrder

SpecNormalizer == InitNormalizer /\ [][NextNormalizer]_vars

\* the rule set of the symbol check_order was called for
Rules == exchange_info[InfoOf(exchange_info, args.symbol)]

\* g is the smallest lo + k * step (k = 0, 1, ...) that is >= want
SmallestOnGrid(g, lo, step, want) ==
    /\ g >= lo
    /\ g >= want
    /\ (g - lo) % step = 0
    /\ g = lo \/ g - step < want

\* check_order returned, for a symbol that is TRADING
Returned == pc = "return" /\ ret.raised = "none" /\ Rules.status = "TRADING"

(* C1: for a TRADING symbol with a PRICE_FILTER, the price check_order
   returns is the smallest minPrice + k * tickSize that is >= the desired
   price: never below minPrice, and congruent to minPrice modulo tickSize. *)
C1_PriceIsSmallestGridPoint ==
    (Returned /\ HasFilter(Rules, "PRICE_FILTER")) =>
        /\ ret.price # None
        /\ SmallestOnGrid(Val(ret.price),
                          FilterOf(Rules, "PRICE_FILTER").minPrice,
                          FilterOf(Rules, "PRICE_FILTER").tickSize,
                          args.price)

\* minPrice 2, tickSize 2, desired price 3: the price returned is 4
C1_Witness ==
    /\ Returned /\ HasFilter(Rules, "PRICE_FILTER")
    /\ FilterOf(Rules, "PRICE_FILTER").minPrice = 2
    /\ FilterOf(Rules, "PRICE_FILTER").tickSize = 2
    /\ args.price = 3
    /\ ret.price = Some(4)

\* the rule set lists all three filters
HasAllFilters ==
    \A t \in FilterTypes : HasFilter(Rules, t)

\* the quantity and the price the two ratchets alone give
GridQuantity ==
    RatchetUp(FilterOf(Rules, "LOT_SIZE").minQty,
              FilterOf(Rules, "LOT_SIZE").stepSize, args.quantity,
              Rules.baseAssetPrecision)
GridPrice ==
    RatchetUp(FilterOf(Rules, "PRICE_FILTER").minPrice,
              FilterOf(Rules, "PRICE_FILTER").tickSize, args.price,
              Rules.quotePrecision)

\* the amount q at the price p is worth less than the amount n
NotionalBelow(q, p, n) == q * p < n * PriceScale

(* C3: for a TRADING symbol with all three filters, check_order applies the
   min-notional correction exactly when the ratcheted quantity times the
   normalized price is below minNotional, and after the correction the pair
   returned is worth at least minNotional. *)
C3_NotionalCorrection ==
    (Returned /\ HasAllFilters) =>
        LET n == FilterOf(Rules, "MIN_NOTIONAL").minNotional
        IN  /\ ret.notional_fix <=> NotionalBelow(GridQuantity, GridPrice, n)
            /\ ret.notional_fix =>
                   ~NotionalBelow(Val(ret.quantity), Val(ret.price), n)

(* C4: for a TRADING symbol with a LOT_SIZE filter, wherever LOT_SIZE
   stands among the filters, and when no notional correction (the
   MIN_NOTIONAL branch, the BTC/ETH floor) changed the result, the quantity
   check_order returns is the smallest minQty + k * stepSize that is >= the
   desired quantity. *)
C4_QuantityIsSmallestGridPoint ==
    (/\ Returned /\ HasFilter(Rules, "LOT_SIZE")
     /\ ~ret.notional_fix /\ ~ret.floor_fix) =>
        /\ ret.quantity # None
        /\ SmallestOnGrid(Val(ret.quantity),
                          FilterOf(Rules, "LOT_SIZE").minQty,
                          FilterOf(Rules, "LOT_SIZE").stepSize,
                          args.quantity)

\* LOT_SIZE listed last, after PRICE_FILTER, minQty 1, stepSize 2, desired
\* quantity 4: the quantity returned is 5
C4_Witness ==
    /\ Returned /\ ~ret.notional_fix /\ ~ret.floor_fix
    /\ Len(Rules.filters) = 2
    /\ Rules.filters[1].filterType = "PRICE_FILTER"
    /\ Rules.filters[2].filterType = "LOT_SIZE"
    /\ Rules.filters[2].minQty = 1
    /\ Rules.filters[2].stepSize = 2
    /\ args.quantity = 4
    /\ ret.quantity = Some(5)

----------------------------------------------------------------------------
(* balance_is_ok on its own: every balance, minimum and quantity *)

Assets == {"IOTA", "ETH", "USDT"}

\* the dicts that give some of the assets of A an amount in 0..hi
Dicts(A, hi) == UNION {[K -> 0..hi] : K \in SUBSET A}

InitBalance ==
    /\ pc = "call"
    /\ prec = DefaultPrec
    /\ exchange_info = <<>>
    /\ \E symbol \in Symbols :
        /\ balances \in [{symbol.base, symbol.quote} -> 0..MaxBalance]
        /\ min_balance \in Dicts({symbol.base, symbol.quote}, MaxBalance)
        /\ \E a \in {symbol.base, symbol.quote}, quantity \in 0..MaxWant + 1 :
              args = [symbol |-> a, quantity |-> quantity]
    /\ max_balance = EmptyDict
    /\ all_orders = <<>>
    /\ ret = None
    /\ NoTrade
    /\ NoRun

CallBalanceIsOk ==
    /\ pc = "call"
    /\ ret' = balance_is_ok(balances, min_balance, args.symbol, args.quantity)
    /\ pc' = "return"
    /\ UNCHANGED <<prec, exchange_info, balances, min_balance, max_balance,
                   all_orders, args, tradeVars,
                   runVars>>

NextBalance == CallBalanceIsOk

SpecBalance == InitBalance /\ [][NextBalance]_vars

(* C8: balance_is_ok returns False for every quantity strictly greater
   than the free balance of the asset, whether or not a minimum balance is
   configured for it. *)
C8_RejectsAboveBalance ==
    (pc = "return" /\ args.quantity > balances[args.symbol]) => ret = FALSE

\* a quantity above the balance of an asset without a configured minimum,
\* and one above the balance of an asset that holds more than its minimum
C8_Witness ==
    /\ pc = "return"
    /\ args.quantity > balances[args.symbol]
    /\ ~Has(min_balance, args.symbol)
    /\ ret = FALSE

----------------------------------------------------------------------------
(* The price guards on their own: every history, pair setting and price *)

\* the orders an account's history is made of, oldest first
OrderKinds ==
    << [age |-> 9, side |-> "BUY", status |-> "FILLED",
        price |-> 4, executedQty |-> 1],
       [age |-> 8, side |-> "SELL", status |-> "FILLED",
        price |-> 1, executedQty |-> 2],
       [age |-> 3, side |-> "BUY", status |-> "FILLED",
        price |-> 2, executedQty |-> 1],
       [age |-> 3, side |-> "SELL", status |-> "PARTIALLY_FILLED",
        price |-> 3, executedQty |-> 1],
       [age |-> 2, side |-> "BUY", status |-> "CANCELED",
        price |-> 1, executedQty |-> 0],
       [age |-> 1, side |-> "BUY", status |-> "PARTIALLY_FILLED",
        price |-> 3, executedQty |-> 2],
       [age |-> 1, side |-> "SELL", status |-> "FILLED",
        price |-> 2, executedQty |-> 1] >>

\* the histories of at most n orders, in the order of their placement
Histories(n) ==
    {[i \in DOMAIN k |-> OrderKinds[k[i]]] :
        k \in {k \in UNION {[1..m -> DOMAIN OrderKinds] : m \in 0..n} :
                 \A i, j \in DOMAIN k : i < j => k[i] <= k[j]}}

\* the optional keys of a configured symbol pair
PairSettings(symbol) ==
    { [base |-> symbol.base, quote |-> symbol.quote],
      [base |-> symbol.base, quote |-> symbol.quote, check_days |-> 2],
      [base |-> symbol.base, quote |-> symbol.quote,
       buy_order_check |-> FALSE, sell_order_check |-> FALSE],
      [base |-> symbol.base, quote |-> symbol.quote,
       buy_order_check |-> TRUE, sell_order_check |-> TRUE,
       check_days |-> 10] }

InitPrice ==
    /\ pc = "call"
    /\ prec = AssetPrecision
    /\ exchange_info = <<>>
    /\ balances = EmptyDict
    /\ min_balance = EmptyDict
    /\ max_balance = EmptyDict
    /\ all_orders \in Histories(MaxOrders)
    /\ \E symbol_pair \in PairSettings(IOTAETH), price \in 1..MaxWant :
          args = [symbol_pair |-> symbol_pair, price |-> price, side |-> "none"]
    /\ ret = None
    /\ NoTrade
    /\ NoRun

CallBuyPriceIsRight ==
    /\ pc = "call"
    /\ ret' = buy_price_is_right(all_orders, args.symbol_pair, args.price, prec)
    /\ args' = [args EXCEPT !.side = "BUY"]
    /\ pc' = "return"
    /\ UNCHANGED <<prec, exchange_info, balances, min_balance, max_balance,
                   all_orders, tradeVars,
                   runVars>>

CallSellPriceIsRight ==
    /\ pc = "call"
    /\ ret' = sell_price_is_right(all_orders, args.symbol_pair, args.price, prec)
    /\ args' = [args EXCEPT !.side = "SELL"]
    /\ pc' = "return"
    /\ UNCHANGED <<prec, exchange_info, balances, min_balance, max_balance,
                   all_orders, tradeVars,
                   runVars>>

NextPrice == CallBuyPriceIsRight \/ CallSellPriceIsRight

SpecPrice == InitPrice /\ [][NextPrice]_vars

\* the lookback window of the guard of an order of the given side
Lookback(symbol_pair, side) ==
    IF Has(symbol_pair, "check_days") THEN Some(symbol_pair.check_days)
    ELSE IF side = "SELL" THEN Some(DefaultCheckDays) ELSE None

Opposite(side) == IF side = "BUY" THEN "SELL" ELSE "BUY"

\* the orders of the history that qualify for the guard of the call made:
\* opposite side, filled or partially filled, inside the lookback window
QualifyingOrders ==
    {i \in DOMAIN all_orders :
        /\ all_orders[i].side = Opposite(args.side)
        /\ all_orders[i].status \in {"FILLED", "PARTIALLY_FILLED"}
        /\ \/ Lookback(args.symbol_pair, args.side) = None
           \/ all_orders[i].age < Val(Lookback(args.symbol_pair, args.side))}

(* C9: with fewer qualifying historical orders than min_orders, zero
   included, buy_price_is_right and sell_price_is_right return True for
   every price. *)
C9_SparseHistoryPasses ==
    (pc = "return" /\ Cardinality(QualifyingOrders) < MinOrders) =>
        ret = [value |-> TRUE, raised |-> "none"]

\* a buy above the average of one to four qualifying sells passes
C9_Witness ==
    /\ pc = "return" /\ args.side = "BUY"
    /\ ~Has(args.symbol_pair, "buy_order_check")
    /\ Cardinality(QualifyingOrders) \in 1..(MinOrders - 1)
    /\ AboveTolerance(args.price,
                      get_order_average(all_orders, "SELL",
                          Lookback(args.symbol_pair, "BUY"), prec).avg)
    /\ ret.value = TRUE

\* the average the guard of the call made compares the price with
HistoricalAverage ==
    get_order_average(all_orders, Opposite(args.side),
                      Lookback(args.symbol_pair, args.side), prec).avg

(* C10: the price guards reject only prices on the unfavourable side of
   the historical average: a buy only if its price is above the sell
   average by more than the tolerance, a sell only if its price is below
   the buy average; a sell priced at or above the historical buy average
   is never rejected. *)
C10_RejectsOnlyUnfavourable ==
    (pc = "return" /\ ret.raised = "none" /\ ret.value = FALSE) =>
        /\ args.side = "BUY" => AboveTolerance(args.price, HistoricalAverage)
        /\ args.side = "SELL" =>
               args.price * HistoricalAverage.den < HistoricalAverage.num

----------------------------------------------------------------------------
(* Binanza.cancel_stale_orders *)

\* datetime.datetime.fromtimestamp(Decimal(order["time"]) / Decimal(1000.0))
\* of an order placed at the tick time.  The quotient is a Decimal, not a
\* float: an interpreter that converts it with __int__ drops the fraction
\* of the second, one that asks for __index__ raises TypeError.
fromtimestamp(time, truncates) ==
    IF truncates
    THEN [value |-> (time \div TimeScale) * TimeScale, raised |-> "none"]
    ELSE [value |-> 0, raised |-> "TypeError"]

\* the sequence s without the order of the id
WithoutOrder(s, id) == SelectSeq(s, LAMBDA o : o.orderId # id)

\* the body of the loop for one open order, then being what fromtimestamp
\* gave: an order the exchange no longer has makes cancel_order raise
cancel_if_stale(st, order, now, lifetime, then) ==
    IF then.raised # "none" THEN [st EXCEPT !.raised = then.raised]
    ELSE IF now - then.value > lifetime * TimeScale
    THEN IF order.gone
         THEN [st EXCEPT !.raised = "BinanceAPIException"]
         ELSE [st EXCEPT !.open = WithoutOrder(@, order.orderId),
                         !.log = @ \ {order.orderId},
                         !.cancelled = Append(@, order)]
    ELSE st

\* for order in self.client.get_open_orders(...): ...  (lines 559-566)
RECURSIVE cancel_loop(_, _, _, _, _, _)
cancel_loop(st, orders, i, now, lifetime, truncates) ==
    IF i > Len(orders) \/ st.raised # "none" THEN st
    ELSE cancel_loop(cancel_if_stale(st, orders[i], now, lifetime,
                                     fromtimestamp(orders[i].time,
                                                   truncates)),
                     orders, i + 1, now, lifetime, truncates)

\* cancel_stale_orders(symbol) at the tick now, the exchange listing the
\* open orders and the orders table holding the ids log: the list it
\* returns, the orders left open, the ids left in the table, and the
\* exception raised instead
cancel_stale_orders(orders, log, now, lifetime, truncates) ==
    cancel_loop([cancelled |-> <<>>, open |-> orders, log |-> log,
                 raised |-> "none"],
                orders, 1, now, lifetime, truncates)

\* the open orders the exchange may list: n orders with the ids 1..n, each
\* placed at a tick up to now, and possibly filled since it was listed
OpenOrders(n, now) ==
    {[i \in 1..n |-> [orderId |-> i, time |-> t[i], gone |-> g[i]]] :
        t \in [1..n -> 0..now], g \in [1..n -> BOOLEAN]}

InitReaper ==
    /\ pc = "call"
    /\ prec = DefaultPrec
    /\ \E now \in (MaxTime - 1)..MaxTime, n \in 0..MaxOpen,
          truncates \in BOOLEAN :
          \E orders \in OpenOrders(n, now), log \in SUBSET (1..n) :
              /\ args = [now |-> now, orders |-> orders, log |-> log,
                         truncates |-> truncates]
              /\ open_orders = orders
              /\ db = [orders |-> log, patterns |-> <<>>]
    /\ exchange_info = <<>>
    /\ balances = EmptyDict
    /\ min_balance = EmptyDict
    /\ max_balance = EmptyDict
    /\ all_orders = <<>>
    /\ ret = None
    /\ NoTrade
    /\ gmail = None
    /\ exchange = NoExchange
    /\ last_run = NewLog
    /\ mails = NoMails

CallCancelStaleOrders ==
    /\ pc = "call"
    /\ LET r == cancel_stale_orders(open_orders, db.orders, args.now,
                                    OrderLifetime, args.truncates)
       IN  /\ ret' = [cancelled |-> r.cancelled, raised |-> r.raised]
           /\ open_orders' = r.open
           /\ db' = [db EXCEPT !.orders = r.log]
    /\ pc' = "return"
    /\ UNCHANGED <<prec, exchange_info, balances, min_balance, max_balance,
                   all_orders, args, tradeVars,
                   exchange, gmail, last_run, mails>>

NextReaper == CallCancelStaleOrders

SpecReaper == InitReaper /\ [][NextReaper]_vars

\* the age of the order at the tick now, and whether it is in the sequence
AgeOf(o) == args.now - o.time
IsIn(o, s) == \E k \in DOMAIN s : s[k] = o
Reaped == pc = "return" /\ ret.raised = "none"

(* C14: after cancel_stale_orders has returned normally, every open order
   older than order_lifetime has been cancelled on the exchange, is gone
   from the orders table and is in the list returned, and no open order
   of an age up to order_lifetime has been cancelled or deleted. *)
C14_ExactlyTheStaleReaped ==
    Reaped =>
        \A k \in DOMAIN args.orders :
            LET o == args.orders[k]
            IN  IF AgeOf(o) > OrderLifetime * TimeScale
                THEN /\ ~IsIn(o, open_orders)
                     /\ o.orderId \notin db.orders
                     /\ IsIn(o, ret.cancelled)
                ELSE /\ IsIn(o, open_orders)
                     /\ ~IsIn(o, ret.cancelled)
                     /\ o.orderId \in args.log => o.orderId \in db.orders

----------------------------------------------------------------------------
(* Binanza.analyze_candles *)

\* the value a TA-Lib pattern function gives a candle it recognizes
\* (bullish; bearish is its negative), and 0 where it recognizes nothing
PatternValue == 100

\* Decimal(0.2) is the float 0.2, a little above one fifth: a product
\* previous_volume * Decimal(0.2) shows the excess from this precision on
FifthExcessPrec == 17

\* self.patterns, three of its entries: the pattern function, by the number
\* of candles TA-Lib needs before the one it rates, and the validators, by
\* the factor and skip they pass to reversal_if_trend
Patterns ==
    <<[name |-> "Dragonfly doji", lookback |-> 10,
       validators |-> <<[factor |-> 2, skip |-> 0]>>],
      [name |-> "Engulfing pattern", lookback |-> 2,
       validators |-> <<[factor |-> 1, skip |-> 1]>>],
      [name |-> "Three outside up/down", lookback |-> 3,
       validators |-> <<[factor |-> 1, skip |-> 3]>>]>>

\* the sum of the closes of candles[from..to] (1-based, inclusive)
RECURSIVE SumClose(_, _, _)
SumClose(candles, from, to) ==
    IF from > to THEN 0
    ELSE candles[from].close + SumClose(candles, from + 1, to)

Max(a, b) == IF a >= b THEN a ELSE b

\* reversal_if_trend(indication, candles, factor, skip): latest_close is
\* candles[-factor-skip:], previous_close the slice before it back to
\* -5*factor-skip; an empty slice divides by zero
reversal_if_trend(indication, candles, factor, skip) ==
    LET n == Len(candles)
        lfrom == Max(0, n - (factor + skip)) + 1
        pfrom == Max(0, n - (5 * factor + skip)) + 1
        pto == n - (factor + skip)
        nl == n - lfrom + 1
        np == pto - pfrom + 1
    IN  IF nl <= 0 \/ np <= 0
        THEN [value |-> FALSE, raised |-> "ZeroDivisionError"]
        ELSE [value |->
                \/ /\ indication > 0
                   /\ SumClose(candles, lfrom, n) * np
                          < SumClose(candles, pfrom, pto) * nl
                \/ /\ indication < 0
                   /\ SumClose(candles, lfrom, n) * np
                          > SumClose(candles, pfrom, pto) * nl,
              raised |-> "none"]

\* all(v(indication, candles) for v in validators): the first validator
\* that answers False ends it, one that raises ends the analysis
RECURSIVE all_validators(_, _, _, _)
RECURSIVE validator_then(_, _, _, _, _)
all_validators(validators, i, indication, candles) ==
    IF i > Len(validators) THEN [value |-> TRUE, raised |-> "none"]
    ELSE validator_then(validators, i, indication, candles,
             reversal_if_trend(indication, candles, validators[i].factor,
                               validators[i].skip))

\* the rest of all(...) after the validator i has answered v
validator_then(validators, i, indication, candles, v) ==
    IF v.raised # "none" \/ ~v.value THEN v
    ELSE all_validators(validators, i + 1, indication, candles)

\* if (len(candles) > 1): ... del candles[-1]  (lines 324-328), under the
\* context precision p
volume_trim(candles, p) ==
    IF /\ Len(candles) > 1
       /\ \/ candles[Len(candles)].volume * 5
                 < candles[Len(candles) - 1].volume
          \/ /\ candles[Len(candles)].volume * 5
                    = candles[Len(candles) - 1].volume
             /\ candles[Len(candles) - 1].volume > 0
             /\ p >= FifthExcessPrec
    THEN SubSeq(candles, 1, Len(candles) - 1)
    ELSE candles

\* the last value f(inputs)[-1] may take for a window of n candles, for the
\* pattern p: 0 while TA-Lib lacks its lookback
LastValues(p, n) ==
    IF n > p.lookback THEN {0 - PatternValue, 0, PatternValue} ELSE {0}

\* the body of "for pattern in self.patterns" for the pattern i, given what
\* its validators answer: st holds sum_indication and recognized_patterns
count_pattern(st, i, indication, v) ==
    IF v.raised # "none" THEN [st EXCEPT !.raised = v.raised]
    ELSE IF v.value
    THEN [st EXCEPT !.sum_indication = @ + indication,
                    !.patterns = Append(@, [name |-> Patterns[i].name,
                                            indication |-> indication])]
    ELSE st

\* for pattern in self.patterns: ...  (lines 351-364); out[i] is the last
\* value of the pattern function i
RECURSIVE pattern_loop(_, _, _, _)
pattern_loop(st, i, out, candles) ==
    IF i > Len(Patterns) \/ st.raised # "none" THEN st
    ELSE pattern_loop(
             IF out[i] # 0
             THEN count_pattern(st, i, out[i],
                      all_validators(Patterns[i].validators, 1, out[i],
                                     candles))
             ELSE st,
             i + 1, out, candles)

\* a mean over the patterns counted, not over the patterns registered
analysis_result_over_counted(st, candles) ==
    [indication |-> [num |-> st.sum_indication, den |-> Len(st.patterns)],
     patterns |-> st.patterns, candles |-> candles, raised |-> st.raised]

\* what analyze_candles returns for the loop's final st: the indication is
\* the fraction sum_indication / len(self.patterns)
analysis_result(st, candles) ==
    [indication |-> [num |-> st.sum_indication, den |-> Len(Patterns)],
     patterns |-> st.patterns, candles |-> candles, raised |-> st.raised]

\* the analysis of the window already trimmed.  On an empty window the
\* pattern function raises (or its empty result has no [-1], line 357).
analyze_trimmed(candles, out) ==
    IF Len(candles) = 0
    THEN [indication |-> [num |-> 0, den |-> Len(Patterns)],
          patterns |-> <<>>, candles |-> candles, raised |-> "Exception"]
    ELSE analysis_result(
             pattern_loop([sum_indication |-> 0, patterns |-> <<>>,
                           raised |-> "none"], 1, out, candles),
             candles)

\* analyze_candles(candles) under the context precision p, the pattern
\* functions giving the last values out
analyze_candles(candles, out, p) ==
    analyze_trimmed(volume_trim(candles, p), out)

\* the closes of a window rise or fall, or stay
Monotone(c) ==
    \/ \A i, j \in DOMAIN c : i < j => c[i] <= c[j]
    \/ \A i, j \in DOMAIN c : i < j => c[i] >= c[j]

\* the candle windows get_klines returns: every candle whole but the last
Windows(n) ==
    {[i \in 1..n |-> [close |-> c[i],
                      volume |-> IF i = n THEN v ELSE MaxVolume]] :
        c \in {d \in [1..n -> 1..MaxClose] : Monotone(d)},
        v \in {0, 1, MaxVolume}}

\* what the pattern functions may give for the window, trimmed under p
Outputs(candles, p) ==
    {out \in [DOMAIN Patterns -> {0 - PatternValue, 0, PatternValue}] :
        \A i \in DOMAIN Patterns :
            out[i] \in LastValues(Patterns[i], Len(volume_trim(candles, p)))}

InitAnalyze ==
    /\ pc = "call"
    /\ prec \in {DefaultPrec, AssetPrecision}
    /\ \E n \in 0..MaxCandles :
          \E candles \in Windows(n) :
              \E out \in Outputs(candles, prec) :
                  args = [candles |-> candles, out |-> out]
    /\ exchange_info = <<>>
    /\ balances = EmptyDict
    /\ min_balance = EmptyDict
    /\ max_balance = EmptyDict
    /\ all_orders = <<>>
    /\ ret = None
    /\ NoTrade
    /\ NoRun

CallAnalyzeCandles ==
    /\ pc = "call"
    /\ ret' = analyze_candles(args.candles, args.out, prec)
    /\ pc' = "return"
    /\ UNCHANGED <<prec, exchange_info, balances, min_balance, max_balance,
                   all_orders, args, tradeVars,
                   runVars>>

NextAnalyze == CallAnalyzeCandles

SpecAnalyze == InitAnalyze /\ [][NextAnalyze]_vars

\* the window the patterns were rated on
Window == volume_trim(args.candles, prec)
\* the pattern i is counted: its last value is nonzero and its validators
\* all pass
Counted(i) ==
    /\ args.out[i] # 0
    /\ \A k \in DOMAIN Patterns[i].validators :
          reversal_if_trend(args.out[i], Window,
                            Patterns[i].validators[k].factor,
                            Patterns[i].validators[k].skip).value
RECURSIVE SumCounted(_)
SumCounted(i) ==
    IF i = 0 THEN 0
    ELSE (IF Counted(i) THEN args.out[i] ELSE 0) + SumCounted(i - 1)
Analyzed == pc = "return" /\ ret.raised = "none"

(* C11: the indication analyze_candles returns is the sum of the last
   values of the counted patterns (nonzero, validators all passing) over
   the number of registered patterns; it is 0 when none is counted, and a
   single counted pattern of value v gives v / N with one PatternMatch. *)
C11_IndicationIsMeanOverAll ==
    Analyzed =>
        /\ ret.indication.den = Len(Patterns)
        /\ ret.indication.num = SumCounted(Len(Patterns))
        /\ Len(ret.patterns)
              = Cardinality({i \in DOMAIN Patterns : Counted(i)})
        /\ (\A i \in DOMAIN Patterns : ~Counted(i)) =>
              ret.indication.num = 0 /\ ret.patterns = <<>>
        /\ \A i \in DOMAIN Patterns :
              (\A j \in DOMAIN Patterns : Counted(j) <=> j = i) =>
                  /\ ret.indication.num = args.out[i]
                  /\ ret.patterns = <<[name |-> Patterns[i].name,
                                       indication |-> args.out[i]]>>

\* the engulfing pattern alone is counted, bullish after a fall, the other
\* pattern functions giving 0 and a nonzero value that is not validated
C11_Witness ==
    /\ Analyzed
    /\ Counted(2)
    /\ args.out[1] = 0
    /\ args.out[3] # 0
    /\ ~Counted(3)
    /\ ret.indication = [num |-> PatternValue, den |-> Len(Patterns)]
    /\ Len(ret.patterns) = 1

\* the window is shorter than the candles the validators of the pattern i
\* look back on
TooShortFor(i) ==
    \E k \in DOMAIN Patterns[i].validators :
        Len(Window) < 5 * Patterns[i].validators[k].factor
                          + Patterns[i].validators[k].skip

(* C20: on a candle window too short for the lookback of a pattern's
   validator (windows of 0 to 5 candles, windows shortened by the volume
   trim) the analysis raises nothing and counts no signal for that
   pattern; a window of fewer than 2 candles is never trimmed. *)
C20_ShortWindowNoSignal ==
    pc = "return" =>
        /\ \A i \in DOMAIN Patterns :
              TooShortFor(i) =>
                  /\ ret.raised = "none"
                  /\ \A k \in DOMAIN ret.patterns :
                        ret.patterns[k].name # Patterns[i].name
        /\ Len(args.candles) < 2 => ret.candles = args.candles

----------------------------------------------------------------------------
(* Binanza.trade *)

\* the string of a lone asset, as a symbol: base followed by nothing
AssetAsSymbol(a) == [base |-> a, quote |-> ""]

\* set_decimal_precision(symbol_pair, symbol): the precision it leaves
RECURSIVE set_decimal_precision(_, _, _, _, _)
set_decimal_precision(info, i, symbol_pair, symbol, p) ==
    IF i > Len(info) THEN p
    ELSE set_decimal_precision(info, i + 1, symbol_pair, symbol,
             IF info[i].symbol = symbol_pair
             THEN IF symbol = info[i].baseAsset
                  THEN info[i].baseAssetPrecision
                  ELSE info[i].quotePrecision
             ELSE p)

\* balance * Decimal(batch), the batch being the fraction num / den
MulBatch(balance, batch, p) == Quantize((balance * batch.num) \div batch.den, p)

\* the product is a whole amount: the model draws no other balance
ExactBatch(balance, batch) == (balance * batch.num) % batch.den = 0

\* base_quantity / price, an amount of quote over a price.  The quotient is
\* only ever compared with amounts (line 532), for which it acts as the
\* smallest amount that is not below it.
DivPrice(amount, p) == 0 - ((0 - amount * PriceScale) \div p)

\* what the pair's decision leaves: the locals, the result of check_order,
\* the context precision, the branch taken, the orders sent, the history
\* fetched (None: none was fetched) and the exception that left the loop
Decision(l, r, p, o, s, h, e) ==
    [loc |-> l, ret |-> r, prec |-> p, outcome |-> o, sent |-> s,
     history |-> h, raised |-> e]

\* the order trade sends
Order(side, symbol, l) ==
    [side |-> side, symbol |-> symbol, quantity |-> Val(l.quantity),
     price |-> Val(l.price)]

\* quantity, price = self.check_order(...)
with_result(l, r) == [l EXCEPT !.quantity = r.quantity, !.price = r.price]

\* elif (not self.buy_price_is_right(...)) / sell_price_is_right(...), and
\* the order: g is what the price guard answers under the history h, and
\* answer is what order_limit_buy / order_limit_sell does: it returns the
\* order, or raises BinanceAPIException, which both sides catch, or another
\* exception, which only the sell side catches (except: ... continue)
\* (lines 680-691, 708-720)
place_order(side, symbol, l, r, h, g, answer) ==
    IF g.raised # "none"
    THEN Decision(l, r, r.prec, "exception", <<>>, Some(h), g.raised)
    ELSE IF ~g.value
    THEN Decision(l, r, r.prec, "price", <<>>, Some(h), "none")
    ELSE IF answer = "ok"
    THEN Decision(l, r, r.prec, "order", <<Order(side, symbol, l)>>,
                  Some(h), "none")
    ELSE IF answer = "BinanceAPIException"
    THEN Decision(l, r, r.prec, "rejected", <<Order(side, symbol, l)>>,
                  Some(h), "none")
    ELSE IF side = "SELL"
    THEN Decision(l, r, r.prec, "order_error", <<Order(side, symbol, l)>>,
                  Some(h), "none")
    ELSE Decision(l, r, r.prec, "exception", <<Order(side, symbol, l)>>,
                  Some(h), answer)

\* base_quantity = self.balances[quote_symbol] * buy_batch, reduced to what
\* the minimum balance leaves  (lines 667-669)
buy_base_quantity(sp, bal, minb, p) ==
    IF /\ Has(minb, sp.quote)
       /\ DecSub(bal[sp.quote], MulBatch(bal[sp.quote], sp.buy_batch, p), p)
              < minb[sp.quote]
    THEN DecSub(bal[sp.quote], minb[sp.quote], p)
    ELSE MulBatch(bal[sp.quote], sp.buy_batch, p)

\* lines 672-691, r being what check_order has returned or raised
buy_checked(sp, bal, minb, maxb, l, bq, r, h, answer) ==
    IF r.raised # "none"
    THEN Decision(l, r, r.prec, "exception", <<>>, None, r.raised)
    ELSE IF r.quantity = None \/ r.price = None
    THEN Decision(with_result(l, r), r, r.prec, "closed", <<>>, None, "none")
    ELSE IF ~balance_is_ok(bal, minb, sp.quote, bq)
    THEN Decision(with_result(l, r), r, r.prec, "min_balance", <<>>, None,
                  "none")
    ELSE IF Has(maxb, sp.base)
            /\ DecAdd(bal[sp.base], bq, r.prec) > maxb[sp.base]
    THEN Decision(with_result(l, r), r, r.prec, "max_balance", <<>>, None,
                  "none")
    ELSE place_order("BUY", [base |-> sp.base, quote |-> sp.quote],
                     with_result(l, r), r, h,
                     buy_price_is_right(h, sp, Val(r.price), r.prec),
                     answer)

\* line 671, bq being the base_quantity of lines 667-669
buy_sized(sp, bal, minb, maxb, info, l, p, h, answer, bq) ==
    buy_checked(sp, bal, minb, maxb, [l EXCEPT !.base_quantity = Some(bq)],
                bq,
                check_order(info, [base |-> sp.base, quote |-> sp.quote],
                            DivPrice(bq, Val(l.price)), Val(l.price), p),
                h, answer)

\* if (indication > 0.0): ... (lines 665-691), with the history h that
\* get_all_orders returns and the exchange's answer to the order
trade_buy(sp, bal, minb, maxb, info, l, p, h, answer) ==
    buy_sized(sp, bal, minb, maxb, info, l, p, h, answer,
              buy_base_quantity(sp, bal, minb, p))

\* quantity = self.balances[base_symbol] * sell_batch, reduced to what the
\* minimum balance leaves  (lines 696, 699-700)
sell_quantity(sp, bal, minb, p) ==
    IF /\ Has(minb, sp.base)
       /\ DecSub(bal[sp.base], MulBatch(bal[sp.base], sp.sell_batch, p), p)
              < minb[sp.base]
    THEN DecSub(bal[sp.base], minb[sp.base], p)
    ELSE MulBatch(bal[sp.base], sp.sell_batch, p)

\* lines 702-720, r being what check_order has returned or raised and qq
\* the quote_quantity of line 697, an amount times PriceScale
sell_checked(sp, bal, minb, maxb, l, qq, r, h, answer) ==
    IF r.raised # "none"
    THEN Decision(l, r, r.prec, "exception", <<>>, None, r.raised)
    ELSE IF r.quantity = None \/ r.price = None
    THEN Decision(with_result(l, r), r, r.prec, "closed", <<>>, None, "none")
    ELSE IF ~balance_is_ok(bal, minb, sp.base, Val(r.quantity))
    THEN Decision(with_result(l, r), r, r.prec, "min_balance", <<>>, None,
                  "none")
    ELSE IF Has(maxb, sp.quote)
            /\ bal[sp.quote] * PriceScale + qq > maxb[sp.quote] * PriceScale
    THEN Decision(with_result(l, r), r, r.prec, "max_balance", <<>>, None,
                  "none")
    ELSE place_order("SELL", [base |-> sp.base, quote |-> sp.quote],
                     with_result(l, r), r, h,
                     sell_price_is_right(h, sp, Val(r.price), r.prec),
                     answer)

\* lines 697 and 701, q being the quantity of lines 696-700 and p the
\* precision set_decimal_precision has left
sell_sized(sp, bal, minb, maxb, info, l, p, h, answer, q) ==
    sell_checked(sp, bal, minb, maxb,
                 [l EXCEPT !.quantity = Some(q),
                           !.quote_quantity =
                               Some(DecMul(MulBatch(bal[sp.base],
                                                    sp.sell_batch, p),
                                           Val(l.price), p))],
                 DecMul(MulBatch(bal[sp.base], sp.sell_batch, p),
                        Val(l.price), p),
                 check_order(info, [base |-> sp.base, quote |-> sp.quote],
                             q, Val(l.price), p),
                 h, answer)

\* line 695: set_decimal_precision(base_symbol, quote_symbol), p1 being the
\* precision it leaves
sell_under(sp, bal, minb, maxb, info, l, p1, h, answer) ==
    sell_sized(sp, bal, minb, maxb, info, l, p1, h, answer,
               sell_quantity(sp, bal, minb, p1))

\* a sell branch that buys
trade_sell_buying(sp, bal, minb, maxb, info, l, p, h, answer) ==
    trade_buy(sp, bal, minb, maxb, info, l, p, h, answer)

\* elif (indication < 0.0): ... (lines 693-720)
trade_sell(sp, bal, minb, maxb, info, l, p, h, answer) ==
    sell_under(sp, bal, minb, maxb, info, l,
               set_decimal_precision(info, 1, AssetAsSymbol(sp.base),
                                     sp.quote, p),
               h, answer)

\* the configured symbol pairs: IOTA against ETH, ETH against USDT
Batches == {[num |-> 1, den |-> 2], [num |-> 1, den |-> 1]}
PairOf(symbol, batch) ==
    [base |-> symbol.base, quote |-> symbol.quote,
     buy_batch |-> batch, sell_batch |-> batch]

\* the configured minimum and maximum balances
MinBalances == {EmptyDict, [a \in {"ETH"} |-> MaxMin]}
MaxBalances ==
    {EmptyDict} \cup {[a \in {b} |-> MaxBalance - 1] : b \in {"IOTA", "ETH"}}

\* the rule sets get_exchange_info returns for the pair's symbol: every
\* subset of the filters, and the three filters back to front; a symbol
\* that is not trading keeps the coarsest grid
FilterRank == [t \in FilterTypes |->
    IF t = "PRICE_FILTER" THEN 1 ELSE IF t = "LOT_SIZE" THEN 2 ELSE 3]
TradeFilterOrders ==
    {o \in FilterOrders :
        \A i, j \in DOMAIN o : i < j => FilterRank[o[i]] < FilterRank[o[j]]}
        \cup {<<"MIN_NOTIONAL", "LOT_SIZE", "PRICE_FILTER">>}
TradeInfos(symbol) ==
    {<<OtherInfo, SymbolInfo(symbol, "TRADING", o, g, g, g, g, g)>> :
        o \in TradeFilterOrders, g \in 1..MaxGrid}
    \cup {<<OtherInfo, SymbolInfo(symbol, "BREAK", o, MaxGrid, MaxGrid,
                                  MaxGrid, MaxGrid, MaxGrid)>> :
             o \in TradeFilterOrders}

\* the histories get_all_orders returns: empty, or MaxOrders like orders
TradeHistories ==
    {h \in Histories(MaxOrders) :
        /\ Len(h) \in {0, MaxOrders}
        /\ \A i, j \in DOMAIN h : h[i] = h[j]}

\* what order_limit_buy and order_limit_sell may do: return the order, or
\* raise BinanceAPIException (rejected, rate-limited) or a timeout
ExchangeAnswers == {"ok", "BinanceAPIException", "Timeout"}

\* a pair definition in the style of start_trading.py: no "quote", no
\* "buy_batch", no "sell_batch"
PairWithoutQuote == [buy |-> "IOTA", base |-> "ETH"]
PairKeys == {"base", "quote", "buy_batch", "sell_batch"}

\* the open orders get_open_orders may list when the clock reads MaxTime:
\* none, a stale one, a young one, or a stale one filled since and another
\* stale one after it; the orders table has the row of each
AnOrder(id, time, gone) == [orderId |-> id, time |-> time, gone |-> gone]
TradeOpenOrders ==
    {<<>>,
     <<AnOrder(1, 0, FALSE)>>,
     <<AnOrder(1, MaxTime, FALSE)>>,
     <<AnOrder(1, 0, TRUE), AnOrder(2, 0, FALSE)>>}
OrderIds(orders) == {orders[k].orderId : k \in DOMAIN orders}
\* the orderId the exchange gives an order it accepts
NewOrderId == MaxOpen + 1

\* the candle windows get_klines returns to trade, with what the pattern
\* functions give for them: steady closes and no pattern, a fall and a
\* bullish engulfing, a rise and a bearish engulfing, a peak after a long
\* fall with a dragonfly doji and a three outside down, and no candle at all
Whole(c) == [i \in DOMAIN c |-> [close |-> c[i], volume |-> MaxVolume]]
TradeWindows ==
    {[candles |-> Whole(<<c, c, c, c, c, c, c, c>>), out |-> <<0, 0, 0>>] :
        c \in 1..MaxClose}
    \cup {[candles |-> Whole(<<MaxClose, MaxClose, MaxClose, MaxClose,
                               MaxClose, MaxClose, 1, c>>),
            out |-> <<0, PatternValue, 0>>] : c \in 1..MaxClose}
    \cup {[candles |-> Whole(<<1, 1, 1, 1, 1, 1, MaxClose, c>>),
            out |-> <<0, 0 - PatternValue, 0>>] : c \in 1..MaxClose}
    \cup {[candles |-> Whole(<<1, 1, MaxClose, MaxClose, 1, 1, 1, 1,
                               MaxClose, MaxClose, 1, 1>>),
            out |-> <<PatternValue, 0, 0 - PatternValue>>],
           [candles |-> <<>>, out |-> <<0, 0, 0>>]}

\* self.db.add_pattern(pattern, base_symbol, quote_symbol, price) for each
\* of the patterns: the rows appended to the patterns table
add_patterns(rows, patterns, sp, price) ==
    rows \o [k \in DOMAIN patterns |->
                [base |-> sp.base, quote |-> sp.quote,
                 name |-> patterns[k].name,
                 indication |-> patterns[k].indication, price |-> price]]

InitTrade ==
    /\ pc = "start"
    /\ prec = DefaultPrec
    /\ exchange_info = <<>>
    /\ balances = EmptyDict
    /\ min_balance \in MinBalances
    /\ max_balance \in MaxBalances
    /\ all_orders = <<>>
    /\ args = None
    /\ ret = None
    /\ \/ \E batch \in Batches :
             symbol_pairs = <<PairOf(IOTAETH, batch), PairOf(ETHUSDT, batch)>>
       \/ symbol_pairs
             = <<PairWithoutQuote, PairOf(ETHUSDT, [num |-> 1, den |-> 1])>>
    /\ continuous \in BOOLEAN
    /\ pair = 0
    /\ loc = NoLocals
    /\ outcome = "none"
    /\ sent = <<>>
    /\ raised = "none"
    /\ NoRun

\* while (run): try: read_config(); self.db = DB()  (lines 589-598; no
\* config_file is set, so read_config returns at line 268)
StartCycle ==
    /\ pc = "start"
    /\ pc' = "pair"
    /\ pair' = 1
    /\ outcome' = "none"
    /\ sent' = <<>>
    /\ raised' = "none"
    /\ loc' = NoLocals
    /\ ret' = None
    /\ UNCHANGED <<prec, exchange_info, balances, min_balance, max_balance,
                   all_orders, args, symbol_pairs, continuous,
                   runVars>>

\* for symbol_pair in self.symbol_pairs: the settings, get_balances and
\* get_exchange_info (lines 600-615).  The locals of the pair before are
\* dead: each is assigned before it is read.
FetchPair ==
    /\ pc = "pair"
    /\ pair <= Len(symbol_pairs)
    /\ LET sp == symbol_pairs[pair]
       IN  IF PairKeys \subseteq DOMAIN sp
           THEN /\ \E b \in [{sp.base, sp.quote} -> 0..MaxBalance] :
                     /\ ExactBatch(b[sp.quote], sp.buy_batch)
                     /\ ExactBatch(b[sp.base], sp.sell_batch)
                     /\ balances' = b
                /\ exchange_info'
                      \in TradeInfos([base |-> sp.base, quote |-> sp.quote])
                /\ \E o \in TradeOpenOrders :
                     /\ open_orders' = o
                     /\ db' = [db EXCEPT !.orders = OrderIds(o)]
                /\ pc' = "reap"
                /\ UNCHANGED raised
           ELSE /\ pc' = "except"
                /\ raised' = "KeyError"
                /\ UNCHANGED <<balances, exchange_info, open_orders, db>>
    /\ outcome' = "none"
    /\ sent' = <<>>
    /\ loc' = NoLocals
    /\ ret' = None
    /\ UNCHANGED <<prec, min_balance, max_balance, all_orders, args,
                   symbol_pairs, continuous, pair,
                   exchange, gmail, last_run, mails>>

\* cancelled_orders = self.cancel_stale_orders(symbol)  (lines 617-620):
\* an exception it raises leaves the for loop
ReapPair ==
    /\ pc = "reap"
    /\ \E truncates \in BOOLEAN :
          LET r == cancel_stale_orders(open_orders, db.orders, MaxTime,
                                       OrderLifetime, truncates)
          IN  /\ open_orders' = r.open
              /\ db' = [db EXCEPT !.orders = r.log]
              /\ loc' = [loc EXCEPT !.cancelled_orders = r.cancelled]
              /\ raised' = r.raised
              /\ pc' = IF r.raised = "none" THEN "analyze" ELSE "except"
    /\ UNCHANGED <<prec, exchange_info, balances, min_balance, max_balance,
                   all_orders, args, ret, symbol_pairs, continuous, pair,
                   outcome, sent, exchange, gmail, last_run, mails>>

\* the analysis a has returned or raised: set_decimal_precision and
\* price = Decimal(inputs["close"][-1])  (lines 624-650).  The indication
\* is kept as its numerator: it is 0.0, above or below as that is.
\* update_patterns fills price columns of rows of earlier cycles, which
\* the model does not keep.
analysis_then(a, sp) ==
    IF a.raised # "none"
    THEN /\ pc' = "except"
         /\ raised' = a.raised
         /\ loc' = NoLocals
         /\ UNCHANGED prec
    ELSE /\ pc' = "decide"
         /\ UNCHANGED raised
         /\ prec' = set_decimal_precision(exchange_info, 1,
                         [base |-> sp.base, quote |-> sp.quote], sp.quote,
                         prec)
         /\ loc' = [NoLocals EXCEPT
                       !.indication = a.indication.num,
                       !.patterns = a.patterns,
                       !.price = Some(a.candles[Len(a.candles)].close)]

\* get_klines and analyze_candles, under the precision the context has at
\* that line  (lines 622-650).  The open orders and their rows are not
\* touched again in this turn, and the next turn lists them anew.
AnalyzePair ==
    /\ pc = "analyze"
    /\ \E w \in TradeWindows :
          analysis_then(analyze_candles(w.candles, w.out, prec),
                        symbol_pairs[pair])
    /\ open_orders' = <<>>
    /\ db' = EmptyDb
    /\ UNCHANGED <<exchange_info, balances, min_balance, max_balance,
                   all_orders, args, ret, symbol_pairs, continuous, pair,
                   outcome, sent, exchange, gmail, last_run, mails>>

\* the decision d ends the pair's turn: on to the end of the loop body, or
\* to except:
Decided(d) ==
    /\ loc' = d.loc
    /\ ret' = d.ret
    /\ prec' = d.prec
    /\ outcome' = d.outcome
    /\ sent' = d.sent
    /\ raised' = d.raised
    /\ all_orders' = IF d.history = None THEN all_orders ELSE Val(d.history)
    /\ pc' = IF d.raised = "none" THEN "next" ELSE "except"
    /\ db' = [orders |-> IF d.outcome = "order"
                         THEN db.orders \cup {NewOrderId}
                         ELSE db.orders,
              patterns |-> add_patterns(db.patterns, loc.patterns,
                                        symbol_pairs[pair],
                                        Val(loc.price))]

\* if (indication == 0.0): continue ... elif (indication < 0.0): ...
\* (lines 651-720)
DecidePair ==
    /\ pc = "decide"
    /\ \/ /\ loc.indication = 0
          /\ loc' = loc
          /\ outcome' = "no_patterns"
          /\ pc' = "next"
          /\ UNCHANGED <<ret, prec, sent, raised, all_orders, db>>
       \/ /\ loc.indication > 0
          /\ \E h \in TradeHistories, answer \in ExchangeAnswers :
                Decided(trade_buy(symbol_pairs[pair], balances, min_balance,
                                  max_balance, exchange_info, loc, prec, h,
                                  answer))
       \/ /\ loc.indication < 0
          /\ \E h \in TradeHistories, answer \in ExchangeAnswers :
                Decided(trade_sell(symbol_pairs[pair], balances, min_balance,
                                   max_balance, exchange_info, loc, prec, h,
                                   answer))
    /\ UNCHANGED <<exchange_info, balances, min_balance, max_balance, args,
                   symbol_pairs, continuous, pair, open_orders,
                   exchange, gmail,
                   last_run, mails>>

\* the loop body has ended (a continue, or its last line): the next pair.
\* What the pair fetched, computed and wrote is not read again: lines
\* 614-615 fetch anew, and every local is assigned before it is read.
NextPair ==
    /\ pc = "next"
    /\ pc' = "pair"
    /\ pair' = pair + 1
    /\ exchange_info' = <<>>
    /\ balances' = EmptyDict
    /\ all_orders' = <<>>
    /\ ret' = None
    /\ loc' = NoLocals
    /\ outcome' = "none"
    /\ sent' = <<>>
    /\ open_orders' = <<>>
    /\ db' = EmptyDb
    /\ UNCHANGED <<prec, min_balance, max_balance, args, symbol_pairs,
                   continuous, raised, exchange, gmail, last_run, mails>>

\* the pairs are done, or except: has caught an exception: finally, sleep
\* and run again, or stop  (lines 722-745).  self.gmail is None here, so
\* that no mail is sent whatever the last-run log holds; SpecCycle has the
\* log and the mails.
EndCycle ==
    /\ \/ pc = "pair" /\ pair > Len(symbol_pairs)
       \/ pc = "except"
    /\ pc' = IF continuous THEN "start" ELSE "done"
    /\ exchange_info' = <<>>
    /\ balances' = EmptyDict
    /\ all_orders' = <<>>
    /\ ret' = None
    /\ loc' = NoLocals
    /\ pair' = 0
    /\ outcome' = "none"
    /\ sent' = <<>>
    /\ open_orders' = <<>>
    /\ db' = EmptyDb
    /\ UNCHANGED <<prec, min_balance, max_balance, args, symbol_pairs,
                   continuous, raised, exchange, gmail, last_run, mails>>

Next ==
    \/ StartCycle
    \/ FetchPair
    \/ ReapPair
    \/ AnalyzePair
    \/ DecidePair
    \/ NextPair
    \/ EndCycle

Spec == InitTrade /\ [][Next]_vars

----------------------------------------------------------------------------
(* Properties of trade, under Spec *)

\* the pair in turn has been decided: the loop body has ended, or an
\* exception has left it
PairDecided == pc \in {"next", "except"} /\ outcome # "none"
CurrentPair == symbol_pairs[pair]
CurrentSymbol == [base |-> CurrentPair.base, quote |-> CurrentPair.quote]
TradeRules == exchange_info[InfoOf(exchange_info, CurrentSymbol)]
\* the pair had a buy or a sell indication, so check_order was called
Indicated == PairDecided /\ loc.indication # 0

(* C2: for a symbol whose status is not TRADING, check_order returns
   (None, None) whatever the quantity, the price and the filters, and trade
   then sends no order for the pair and raises no exception. *)
C2_ClosedSymbolNoOrder ==
    (PairDecided /\ TradeRules.status # "TRADING") =>
        /\ sent = <<>>
        /\ raised = "none"
        /\ loc.indication # 0 =>
              /\ ret # None
              /\ ret.raised = "none"
              /\ ret.quantity = None
              /\ ret.price = None
              /\ outcome = "closed"

\* a buy indication with quote balance at hand, on a symbol in BREAK with
\* all three filters: nothing is sent
C2_Witness ==
    /\ Indicated
    /\ loc.indication > 0
    /\ TradeRules.status = "BREAK"
    /\ Len(TradeRules.filters) = Cardinality(FilterTypes)
    /\ balances[CurrentPair.quote] = MaxBalance
    /\ outcome = "closed"
    /\ sent = <<>>

(* C5: for a TRADING symbol whose rules lack the PRICE_FILTER or the
   LOT_SIZE filter, check_order raises nothing and leaves the price,
   respectively the quantity, None, and trade sends no order for the pair. *)
C5_MissingFilterNoOrder ==
    (/\ Indicated
     /\ TradeRules.status = "TRADING"
     /\ ~HasFilter(TradeRules, "PRICE_FILTER")
            \/ ~HasFilter(TradeRules, "LOT_SIZE")) =>
        /\ ret # None
        /\ ret.raised = "none"
        /\ ~HasFilter(TradeRules, "PRICE_FILTER") => ret.price = None
        /\ ~HasFilter(TradeRules, "LOT_SIZE") => ret.quantity = None
        /\ sent = <<>>

(* C6: an order trade has placed never brings the free balance of the
   asset it spends below that asset's configured minimum: a buy leaves
   balances[quote] - quantity * price >= min_balance[quote], a sell leaves
   balances[base] - quantity >= min_balance[base], with the quantity and
   the price of the order as sent. *)
C6_MinBalanceKept ==
    (PairDecided /\ outcome = "order") =>
        /\ (sent[1].side = "BUY" /\ Has(min_balance, CurrentPair.quote)) =>
              balances[CurrentPair.quote] * PriceScale
                    - sent[1].quantity * sent[1].price
                 >= min_balance[CurrentPair.quote] * PriceScale
        /\ (sent[1].side = "SELL" /\ Has(min_balance, CurrentPair.base)) =>
              balances[CurrentPair.base] - sent[1].quantity
                 >= min_balance[CurrentPair.base]

(* C7: where the base asset has a configured maximum, a buy is placed only
   if balances[base] plus the order's quantity, which is in base units, is
   at most max_balance[base]. *)
C7_MaxBalanceKept ==
    (/\ PairDecided
     /\ outcome = "order"
     /\ sent[1].side = "BUY"
     /\ Has(max_balance, CurrentPair.base)) =>
        balances[CurrentPair.base] + sent[1].quantity
            <= max_balance[CurrentPair.base]

\* the open order o is older than order_lifetime when the clock reads
\* MaxTime
Stale(o) == MaxTime - o.time > OrderLifetime * TimeScale
\* cancel_stale_orders has been called for the pair in turn and the pair is
\* not yet analysed
PairReaped ==
    \/ pc = "analyze"
    \/ pc = "except" /\ outcome = "none" /\ exchange_info # <<>>
           /\ loc.price = None /\ open_orders # <<>>

(* C12: every pattern analyze_candles has counted for the pair is recorded
   with add_pattern, whatever the indication the counted patterns add up
   to: once the pair is decided, the patterns table has a row for each
   recognized pattern. *)
C12_CountedPatternsRecorded ==
    PairDecided =>
        \A k \in DOMAIN loc.patterns :
            \E j \in DOMAIN db.patterns :
                /\ db.patterns[j].name = loc.patterns[k].name
                /\ db.patterns[j].indication = loc.patterns[k].indication
                /\ db.patterns[j].base = CurrentPair.base
                /\ db.patterns[j].quote = CurrentPair.quote

(* C13: a cancel_order that fails because the stale order is filled or
   gone is not propagated: the other stale orders of the symbol are still
   reaped and the pair goes on to its analysis. *)
C13_CancelFailureTolerated ==
    (/\ PairReaped
     /\ raised # "TypeError"
     /\ \E k \in DOMAIN open_orders :
           Stale(open_orders[k]) /\ open_orders[k].gone) =>
        /\ pc = "analyze"
        /\ raised = "none"
        /\ \A k \in DOMAIN open_orders :
              Stale(open_orders[k]) => open_orders[k].gone

(* C18: an order_limit_buy or order_limit_sell that fails (rejected,
   rate-limited, timed out) is caught where the order is sent: no order
   row is added to the orders table, no exception leaves the pair's turn,
   and trade goes on to the next pair. *)
C18_OrderFailureCaught ==
    (PairDecided /\ sent # <<>> /\ outcome # "order") =>
        /\ db.orders = {}
        /\ raised = "none"
        /\ pc = "next"

(* C19: a symbol pair definition that lacks "base", "quote", "buy_batch"
   or "sell_batch" makes trade skip that pair only: the KeyError never
   ends the cycle while a later pair is still to be analysed. *)
C19_InvalidPairSkipped ==
    ~(/\ pc = "except"
      /\ raised = "KeyError"
      /\ pair < Len(symbol_pairs))

----------------------------------------------------------------------------
(* Binanza.trade, cycle by cycle: a pair's turn is one step, by what it
   leaves in the last-run log and whether an exception leaves it *)

\* self.sleep_duration, in seconds, and the seconds of a day
SleepDuration == 300
Day == 24 * 60 * 60

\* a record emitted to the last-run log, with an order line, an ERROR line
\* or a KeyboardInterrupt traceback in it: a closed handler opens the file
\* anew, which empties it, or drops the record
log_write(l, o, e, i) ==
    IF ~l.closed
    THEN [l EXCEPT !.orders = @ \/ o, !.errors = @ \/ e,
                   !.interrupt = @ \/ i]
    ELSE IF l.reopens
    THEN [l EXCEPT !.orders = o, !.errors = e, !.interrupt = i,
                   !.closed = FALSE]
    ELSE l

\* Log.has_order and Log.has_errors
has_order(l) == l.orders
has_errors(l) == l.errors /\ ~l.interrupt

\* the gmail settings: none, or an account with the numbers of recipients
\* in errors_to_mail and orders_to_mail
GmailSettings ==
    {None} \cup {Some([errors_to_mail |-> e, orders_to_mail |-> o]) :
                    e \in 0..1, o \in 0..1}
mails_orders(l, g) ==
    has_order(l) /\ g # None /\ Val(g).orders_to_mail > 0
mails_errors(l, g) ==
    has_errors(l) /\ g # None /\ Val(g).errors_to_mail > 0

\* what a pair's turn may do (lines 600-720): log nothing but its name, log
\* an order line, log an order line and the ERROR of a BinanceAPIException,
\* or raise
PairTurns == {"quiet", "order", "rejected", "Exception", "KeyboardInterrupt"}

InitCycle ==
    /\ pc = "start"
    /\ prec = DefaultPrec
    /\ exchange_info = <<>>
    /\ balances = EmptyDict
    /\ min_balance = EmptyDict
    /\ max_balance = EmptyDict
    /\ all_orders = <<>>
    /\ args = None
    /\ ret = None
    /\ symbol_pairs = <<PairOf(IOTAETH, [num |-> 1, den |-> 1]),
                        PairOf(ETHUSDT, [num |-> 1, den |-> 1])>>
    /\ continuous \in BOOLEAN
    /\ pair = 0
    /\ loc = NoLocals
    /\ outcome = "none"
    /\ sent = <<>>
    /\ raised = "none"
    /\ open_orders = <<>>
    /\ db = EmptyDb
    /\ gmail \in GmailSettings
    /\ exchange = NoExchange
    /\ \E b \in BOOLEAN : last_run = [NewLog EXCEPT !.reopens = b]
    /\ mails = NoMails

\* try: self.read_config(); self.db = DB()  (lines 590-598): either may
\* raise (a config file that does not parse, a database that does not open)
CycleStart ==
    /\ pc = "start"
    /\ \E ok \in BOOLEAN :
          IF ok
          THEN pc' = "pair" /\ pair' = 1 /\ raised' = "none"
          ELSE pc' = "except" /\ pair' = 0 /\ raised' = "Exception"
    /\ outcome' = "none"
    /\ mails' = [orders |-> 0, errors |-> 0, errors_before |-> mails.errors]
    /\ UNCHANGED <<prec, exchange_info, balances, min_balance, max_balance,
                   all_orders, args, ret, symbol_pairs, continuous, loc,
                   sent, open_orders, db, exchange, gmail, last_run>>

\* one turn of for symbol_pair in self.symbol_pairs  (lines 600-720)
PairTurn ==
    /\ pc = "pair"
    /\ pair <= Len(symbol_pairs)
    /\ \E t \in PairTurns :
          /\ last_run' = log_write(last_run, t \in {"order", "rejected"},
                                   t = "rejected", FALSE)
          /\ IF t \in {"Exception", "KeyboardInterrupt"}
             THEN pc' = "except" /\ raised' = t /\ pair' = pair
             ELSE pc' = "pair" /\ raised' = raised /\ pair' = pair + 1
    /\ UNCHANGED <<prec, exchange_info, balances, min_balance, max_balance,
                   all_orders, args, ret, symbol_pairs, continuous, loc,
                   outcome, sent, open_orders, db, exchange, gmail, mails>>

\* the two mails after the for loop (lines 722-727): sent1 and sent2 tell
\* whether send_gmail gets the order mail and the error mail through, or
\* raises
mails_after(m, l, g, sent1, sent2) ==
    IF mails_orders(l, g) /\ ~sent1
    THEN [mails |-> m, raised |-> "SMTPException"]
    ELSE IF mails_errors(l, g) /\ ~sent2
    THEN [mails |-> [m EXCEPT !.orders = IF mails_orders(l, g)
                                          THEN @ + 1 ELSE @],
          raised |-> "SMTPException"]
    ELSE [mails |-> [m EXCEPT !.orders = IF mails_orders(l, g)
                                          THEN @ + 1 ELSE @,
                              !.errors = IF mails_errors(l, g)
                                          THEN @ + 1 ELSE @],
          raised |-> "none"]

SendMails ==
    /\ pc = "pair"
    /\ pair > Len(symbol_pairs)
    /\ \E sent1, sent2 \in BOOLEAN :
          LET r == mails_after(mails, last_run, gmail, sent1, sent2)
          IN  /\ mails' = r.mails
              /\ raised' = r.raised
              /\ pc' = IF r.raised = "none" THEN "finally" ELSE "except"
    /\ UNCHANGED <<prec, exchange_info, balances, min_balance, max_balance,
                   all_orders, args, ret, symbol_pairs, continuous, pair,
                   loc, outcome, sent, open_orders, db,
                   exchange, gmail, last_run>>

\* except: log.exception("Script error") and the error mail (lines
\* 729-735): a send_gmail that raises here leaves the handler
handled(l, g, m, sent1) ==
    /\ last_run' = l
    /\ IF mails_errors(l, g)
       THEN IF sent1
            THEN /\ mails' = [m EXCEPT !.errors = @ + 1]
                 /\ outcome' = "handled"
                 /\ UNCHANGED raised
            ELSE /\ mails' = m
                 /\ outcome' = "propagating"
                 /\ raised' = "SMTPException"
       ELSE /\ mails' = m
            /\ outcome' = "handled"
            /\ UNCHANGED raised

HandleException ==
    /\ pc = "except"
    /\ \E sent1 \in BOOLEAN :
          handled(log_write(last_run, FALSE, TRUE,
                            raised = "KeyboardInterrupt"),
                  gmail, mails, sent1)
    /\ pc' = "finally"
    /\ UNCHANGED <<prec, exchange_info, balances, min_balance, max_balance,
                   all_orders, args, ret, symbol_pairs, continuous, pair,
                   loc, sent, open_orders, db, exchange, gmail>>

\* finally: logging.shutdown(), and the sleep or run = False  (lines
\* 737-745); an exception that left the handler goes on after it
Finally ==
    /\ pc = "finally"
    /\ last_run' = [last_run EXCEPT !.closed = TRUE]
    /\ pc' = IF continuous THEN "sleep"
             ELSE IF outcome = "propagating" THEN "crashed" ELSE "done"
    /\ UNCHANGED <<prec, exchange_info, balances, min_balance, max_balance,
                   all_orders, args, ret, symbol_pairs, continuous, pair,
                   loc, outcome, sent, raised, open_orders, db,
                   exchange, gmail,
                   mails>>

\* time.sleep(self.sleep_duration) has returned: while (run) again, or the
\* exception leaves trade
Sleep ==
    /\ pc = "sleep"
    /\ pc' = IF outcome = "propagating" THEN "crashed" ELSE "start"
    /\ UNCHANGED <<prec, exchange_info, balances, min_balance, max_balance,
                   all_orders, args, ret, symbol_pairs, continuous, pair,
                   loc, outcome, sent, raised, open_orders, db,
                   exchange, gmail,
                   last_run, mails>>

NextCycle ==
    \/ CycleStart
    \/ PairTurn
    \/ SendMails
    \/ HandleException
    \/ Finally
    \/ Sleep

SpecCycle == InitCycle /\ [][NextCycle]_vars

(* C15: in continuous mode an exception raised anywhere in a cycle (the
   configuration reload, an exchange call, the analysis, the database, the
   sending of a mail) never leaves trade: the loop sleeps and starts
   another cycle. *)
C15_NoExceptionLeavesTrade == continuous => pc # "crashed"

(* C16: with continuous false trade ends after one cycle, in which the
   pairs are visited once each in their order when nothing is raised;
   with continuous true every cycle is followed by the sleep and then by
   a new cycle, which begins with read_config. *)
C16_OneCycleOrSleepAndAgain ==
    [][/\ pc' = "start" => pc = "sleep" /\ continuous
       /\ pc = "start" => pc' \in {"pair", "except"}
       /\ (pc = "start" /\ pc' = "pair") => pair' = 1
       /\ (pc = "pair" /\ pc' = "pair") => pair' = pair + 1
       /\ (pc = "pair" /\ pc' = "finally") => pair > Len(symbol_pairs)
       /\ pc = "finally" =>
             IF continuous THEN pc' = "sleep" ELSE pc' \in {"done", "crashed"}
       /\ pc = "sleep" => pc' = "start"]_vars

(* C17: error mails are at most one a day: no cycle sends two of them,
   and two cycles in a row, which are sleep_duration apart, send one each
   only if sleep_duration is a day or more. *)
C17_ErrorMailsOncePerDay ==
    /\ mails.errors <= 1
    /\ (mails.errors > 0 /\ mails.errors_before > 0) => SleepDuration >= Day

----------------------------------------------------------------------------
(* Further properties of trade, under Spec *)

\* the pair in turn has sent an order to the exchange
OrderSent == PairDecided /\ sent # <<>>

(* C24: an order trade has sent is covered by the balances fetched for the
   pair: a buy's quantity times its price, both as check_order returned
   them, is at most the free balance of the quote asset, and a sell's
   quantity is at most the free balance of the base asset. *)
C24_OrderAffordable ==
    OrderSent =>
        /\ sent[1].side = "BUY" =>
              sent[1].quantity * sent[1].price
                 <= balances[CurrentPair.quote] * PriceScale
        /\ sent[1].side = "SELL" =>
              sent[1].quantity <= balances[CurrentPair.base]

(* C21: for every pair in every cycle at most one order is sent, and its
   side follows the sign of the indication: an indication of 0 sends no
   order, calls check_order not at all and asks no guard, a positive one
   sends at most a limit buy, a negative one at most a limit sell. *)
C21_SideFollowsIndication ==
    PairDecided =>
        /\ Len(sent) <= 1
        /\ loc.indication = 0 =>
              /\ sent = <<>>
              /\ ret = None
              /\ all_orders = <<>>
              /\ loc.quantity = None
              /\ outcome = "no_patterns"
        /\ \A k \in DOMAIN sent :
              /\ loc.indication > 0 => sent[k].side = "BUY"
              /\ loc.indication < 0 => sent[k].side = "SELL"

\* a sell indication whose order the exchange has taken
C21_Witness ==
    /\ PairDecided
    /\ loc.indication < 0
    /\ outcome = "order"
    /\ Len(sent) = 1
    /\ sent[1].side = "SELL"

----------------------------------------------------------------------------
(* Binanza.trade and the exchange: the balances and the rules are those of
   the exchange's own state, which an order and the time between two
   cycles change *)

\* a get_balances that keeps what self.balances holds already
get_balances_keeping(bal, account, symbols) ==
    [s \in symbols |->
        IF Has(bal, s) THEN bal[s]
        ELSE IF Has(account, s) THEN account[s] ELSE 0]

\* get_balances(symbols), self.balances being bal before the call and the
\* account holding the free amounts account: self.balances = {}, a 0 for
\* each symbol, and the free amount of each that the account lists
get_balances(bal, account, symbols) ==
    [s \in symbols |-> IF Has(account, s) THEN account[s] ELSE 0]

\* self.client.get_exchange_info(), the rules in force being rules
get_exchange_info(rules, symbol) ==
    <<OtherInfo,
      SymbolInfo(symbol, rules.status,
                 <<"PRICE_FILTER", "LOT_SIZE", "MIN_NOTIONAL">>,
                 rules.grid, rules.grid, rules.grid, rules.grid,
                 rules.grid)>>

\* the accounts and the rules the exchange may have: an account may list
\* no USDT, an amount is nothing or MaxBalance
Accounts(assets) == [assets -> {0, MaxBalance}]
RuleSets ==
    {[status |-> "TRADING", grid |-> g] : g \in 1..MaxGrid}
    \cup {[status |-> "BREAK", grid |-> MaxGrid]}

InitSnapshot ==
    /\ pc = "start"
    /\ prec = DefaultPrec
    /\ exchange_info = <<>>
    /\ balances = EmptyDict
    /\ min_balance \in MinBalances
    /\ max_balance = EmptyDict
    /\ all_orders = <<>>
    /\ args = None
    /\ ret = None
    /\ symbol_pairs = <<PairOf(IOTAETH, [num |-> 1, den |-> 1]),
                        PairOf(ETHUSDT, [num |-> 1, den |-> 1])>>
    /\ continuous \in BOOLEAN
    /\ pair = 0
    /\ loc = NoLocals
    /\ outcome = "none"
    /\ sent = <<>>
    /\ raised = "none"
    /\ open_orders = <<>>
    /\ db = EmptyDb
    /\ gmail = None
    /\ last_run = NewLog
    /\ mails = NoMails
    /\ \E assets \in {{"IOTA", "ETH"}, {"IOTA", "ETH", "USDT"}} :
          \E a \in Accounts(assets), r \in RuleSets :
              exchange = [account |-> a, rules |-> Some(r)]

\* a pair's turn up to its decision (lines 600-650): get_balances and
\* get_exchange_info ask the exchange, the analysis gives an indication
\* and the last close.  No open order is listed here.
SnapshotPair ==
    /\ pc = "pair"
    /\ pair <= Len(symbol_pairs)
    /\ LET sp == symbol_pairs[pair]
           symbol == [base |-> sp.base, quote |-> sp.quote]
           info == get_exchange_info(Val(exchange.rules), symbol)
       IN  /\ balances' = get_balances(balances, exchange.account,
                                       {sp.base, sp.quote})
           /\ exchange_info' = info
           /\ prec' = set_decimal_precision(info, 1, symbol, sp.quote, prec)
    /\ \E i \in {0 - PatternValue, 0, PatternValue}, close \in 1..MaxClose :
          loc' = [NoLocals EXCEPT !.indication = i, !.price = Some(close)]
    /\ pc' = "decide"
    /\ outcome' = "none"
    /\ sent' = <<>>
    /\ ret' = None
    /\ all_orders' = <<>>
    /\ db' = EmptyDb
    /\ UNCHANGED <<min_balance, max_balance, args, symbol_pairs, continuous,
                   pair, raised, open_orders, gmail, last_run, mails,
                   exchange>>

\* the loop body has ended: an order the exchange has taken changes the
\* free amounts of the account, and the next pair is in turn.
\* self.balances and self.exchange_info stay what they are.
SettlePair ==
    /\ pc = "next"
    /\ IF outcome = "order"
       THEN \E a \in Accounts(DOMAIN exchange.account) :
               exchange' = [exchange EXCEPT !.account = a]
       ELSE UNCHANGED exchange
    /\ pc' = "pair"
    /\ pair' = pair + 1
    /\ UNCHANGED <<prec, exchange_info, balances, min_balance, max_balance,
                   all_orders, args, ret, symbol_pairs, continuous, loc,
                   outcome, sent, raised, open_orders, db, gmail, last_run,
                   mails>>

\* the pairs are done or an exception has been caught: the cycle ends, and
\* while trade sleeps the account and the rules may change  (lines 722-745)
RestCycle ==
    /\ \/ pc = "pair" /\ pair > Len(symbol_pairs)
       \/ pc = "except"
    /\ \E a \in Accounts(DOMAIN exchange.account), r \in RuleSets :
          exchange' = [account |-> a, rules |-> Some(r)]
    /\ pc' = IF continuous THEN "start" ELSE "done"
    /\ UNCHANGED <<prec, exchange_info, balances, min_balance, max_balance,
                   all_orders, args, ret, symbol_pairs, continuous, pair,
                   loc, outcome, sent, raised, open_orders, db, gmail,
                   last_run, mails>>

NextSnapshot ==
    \/ StartCycle
    \/ SnapshotPair
    \/ DecidePair
    \/ SettlePair
    \/ RestCycle

SpecSnapshot == InitSnapshot /\ [][NextSnapshot]_vars

\* the free amount the exchange has of the asset now
FreeNow(a) == IF Has(exchange.account, a) THEN exchange.account[a] ELSE 0

(* C22: the guards and the order of a pair use balances and exchange rules
   fetched in that pair's turn of that cycle, after any order of an
   earlier pair: when the pair is decided, self.balances holds for its two
   assets what the exchange has had since the last order or sleep, and
   self.exchange_info the rules in force since then. *)
C22_SnapshotsAreOfThisTurn ==
    (pc = "decide" \/ PairDecided) =>
        /\ DOMAIN balances = {CurrentPair.base, CurrentPair.quote}
        /\ \A a \in DOMAIN balances : balances[a] = FreeNow(a)
        /\ TradeRules.status = Val(exchange.rules).status
        /\ \A k \in DOMAIN TradeRules.filters :
              TradeRules.filters[k].filterType = "PRICE_FILTER" =>
                  TradeRules.filters[k].tickSize = Val(exchange.rules).grid

\* the second pair of a cycle has placed an order with the ETH the first
\* pair's turn has left
C22_Witness ==
    /\ PairDecided
    /\ pair = 2
    /\ outcome = "order"
    /\ balances["ETH"] = MaxBalance
    /\ FreeNow("ETH") = MaxBalance

----------------------------------------------------------------------------
(* Further properties of the cycle, under SpecCycle *)

\* the except clause of trade has caught an exception in this cycle
CaughtInCycle == pc = "except" \/ outcome \in {"handled", "propagating"}

(* C23: an error mail is sent in a cycle only when the except clause of
   trade has caught an exception in that cycle: a pair without pattern, a
   guard's refusal, a closed symbol, an order taken and an order the
   exchange rejects at submission send none. *)
C23_ErrorMailOnlyOnException == mails.errors > 0 => CaughtInCycle

====
